---- MODULE Spec2Model ----
(***************************************************************************)
(* Model of the ai-cctv-analytics core:                                    *)
(*   - CentroidTracker (tracker.py): frame-to-frame greedy centroid        *)
(*     matching, miss counters and eviction;                               *)
(*   - AnalyticsStore (analytics.py): minute buckets, event log, sessions  *)
(*     and the retention purge.                                            *)
(* Distances are kept as squared integers: np.linalg.norm gives the square *)
(* root, and for the integer centroids of the code  d > m  is the same as  *)
(* d*d > m*m  (m >= 0), and two distances are ordered as their squares.    *)
(***************************************************************************)
EXTENDS Integers, Sequences, FiniteSets, TLC

VARIABLES
    objects,          \* tracker.objects: OrderedDict id -> TrackedObject, in insertion order
    max_missed,       \* CentroidTracker.max_missed
    max_distance,     \* CentroidTracker.max_distance
    retired,          \* history: ids of the objects evicted so far (kept in SpecTrackerIds)
    call,             \* history: what the last CentroidTracker.update call did
    now,              \* the clock read by time.time() / datetime.utcnow(), in seconds
    store_seconds,    \* AnalyticsStore.store_seconds
    tz_offset,        \* UTC offset of the local zone that datetime.timestamp() assumes
    events,           \* AnalyticsStore.events
    active_sessions,  \* AnalyticsStore.active_sessions: id -> start time
    minute_buckets,   \* AnalyticsStore.minute_buckets: minute key -> count
    heatmap_bins,     \* AnalyticsStore.heatmap_bins: <<width_cells, height_cells>>
    heatmap,          \* AnalyticsStore.heatmap: <<bx, by>> -> count
    detlog,           \* history: the times of the record_detection calls so far
    last,             \* history: the last AnalyticsStore call: its name, id argument and
                      \* time, whether its "if" branch was taken, and what it returned
    seen,             \* history: the arguments of the last call a specification looks at
                      \* (bbox and frame_shape of record_detection, top_n of busiest_hours)
    returned,         \* the array the caller of get_heatmap holds: whether it is the store's
                      \* own array or one of its own, and its content in the latter case
    anomaly_detector, \* the AnomalyDetector: its pos_adapter, booking_adapter and thresholds
    pos_calls,        \* history: the calls made to pos_adapter: arguments and returned matches
    answer,           \* history: the last AnomalyDetector call: its name, argument and result
    stream,           \* the VideoStreamAsync: its fields ret, frame and running
    lock,             \* VideoStreamAsync.lock: the thread that holds it, or "free"
    capture_thread,   \* the thread running update(): where it is, and its locals ret, frame
    reader,           \* the thread calling read(): where it is, the two values it has
                      \* evaluated, what the last read() returned, and (history) the
                      \* stored pair of the last completed capture when it took the lock
    captures,         \* the number of capture.read() calls made so far
    completed,        \* history: the pair stored by the last completed capture
    turn,             \* app.py main loop: the index in streams of the camera served next
    owner,            \* history: for each entry of tracker.objects, the camera whose
                      \* detection created the object
    stopper,          \* the thread calling stop(): where it is, and the stop() calls so far
    released          \* the number of capture.release() calls made so far

trackerVars == <<objects, max_missed, max_distance, retired, call>>
storeVars == <<now, store_seconds, tz_offset, events, active_sessions, minute_buckets,
               heatmap_bins, heatmap, detlog, last>>
callerVars == <<seen, returned>>
anomalyVars == <<anomaly_detector, pos_calls, answer>>
\* the components that neither the tracker's nor the store's specifications move
streamVars == <<stream, lock, capture_thread, reader, captures, completed>>
loopVars == <<turn, owner>>
stopVars == <<stopper, released>>
restVars == <<anomalyVars, streamVars, loopVars, stopVars>>
vars == <<trackerVars, storeVars, callerVars, restVars>>

----------------------------------------------------------------------------
(* Bounds of the model *)

\* most detections in one frame
MaxDets == 2

\* str(uuid.uuid4())[:8]: 8 hex digits drawn at random; two of them here, so
\* the map never holds more than two objects
IdSpace == {"a1", "b2"}

\* bounding boxes <<x1, y1, x2, y2>> the detector reports:
\* two boxes with odd coordinate sums, farther apart than max_distance
Boxes == { <<0, 0, 1, 2>>, <<2, 0, 3, 3>> }

\* the boxes cv_tracker.update reports when it succeeds: this one lies between
\* the detector's two, within max_distance of both by the floored centroids
CvBoxes == { <<0, 0, 2, 2>> }

\* constructor arguments of CentroidTracker
MaxMissedVals == {1}
MaxDistanceVals == {1}

----------------------------------------------------------------------------
(* tracker.py *)

\* TrackedObject.__init__: a fresh object; row = 0 marks "created in this call"
\* (row is the index the object had in object_ids when the call began: the
\* Python object's identity within one update call)
TrackedObject(bbox, id) == [id |-> id, bbox |-> bbox, missed |-> 0, row |-> 0]

\* TrackedObject.update_from_bbox
update_from_bbox(o, bbox) == [o EXCEPT !.bbox = bbox, !.missed = 0]

\* CentroidTracker._centroid: floor division
_centroid(bbox) == <<(bbox[1] + bbox[3]) \div 2, (bbox[2] + bbox[4]) \div 2>>

\* the square of np.linalg.norm(p - q)
Norm2(p, q) == (p[1] - q[1]) * (p[1] - q[1]) + (p[2] - q[2]) * (p[2] - q[2])

Keys(m) == {m[i].id : i \in 1..Len(m)}
IndexOf(m, id) == CHOOSE i \in 1..Len(m) : m[i].id = id

\* self.objects[obj.id] = obj with every entry appended, as a list would
PutAppend(m, o) == Append(m, o)

\* self.objects[obj.id] = obj: an OrderedDict replaces the value of a key it
\* already has (the key keeps its place) and appends a new key
Put(m, o) ==
    IF o.id \in Keys(m) THEN [m EXCEPT ![IndexOf(m, o.id)] = o] ELSE Append(m, o)

\* del self.objects[oid]
Del(m, id) == SelectSeq(m, LAMBDA o : o.id # id)

\* for det in detections: self.objects[obj.id] = TrackedObject(det["bbox"], frame)
\* limited to the detections whose index is in todo, in list order; ids[k] is
\* the id drawn for the k-th object created
RECURSIVE CreateFrom(_, _, _, _, _, _)
CreateFrom(m, dets, todo, ids, i, k) ==
    IF i > Len(dets) THEN m
    ELSE IF i \in todo
         THEN CreateFrom(Put(m, TrackedObject(dets[i], ids[k])), dets, todo, ids, i + 1, k + 1)
         ELSE CreateFrom(m, dets, todo, ids, i + 1, k)

\* obj.predict_with_cv(frame) for every object: the cv tracker's box, or the
\* old one when it fails; pred[i] is the outcome for the i-th object
Predictions(m) ==
    { p \in [1..Len(m) -> Boxes \cup CvBoxes] : \A i \in 1..Len(m) : p[i] \in CvBoxes \cup {m[i].bbox} }

Predicted(m, pred) ==
    [i \in 1..Len(m) |-> [id |-> m[i].id, bbox |-> pred[i], missed |-> m[i].missed, row |-> i]]

\* D[r, c], squared
D2(pre, dets, r, c) == Norm2(_centroid(pre[r].bbox), _centroid(dets[c]))

\* D.min(axis=1)[r], squared
RowMin(pre, dets, r) ==
    CHOOSE d \in {D2(pre, dets, r, c) : c \in 1..Len(dets)} :
        \A c \in 1..Len(dets) : d <= D2(pre, dets, r, c)

\* D.argmin(axis=1)[r]: the first column holding the row's minimum
ArgMin(pre, dets, r) ==
    CHOOSE c \in 1..Len(dets) :
        /\ D2(pre, dets, r, c) = RowMin(pre, dets, r)
        /\ \A c2 \in 1..(c - 1) : D2(pre, dets, r, c2) # RowMin(pre, dets, r)

\* D.min(axis=1).argsort(): a permutation of the rows in ascending order of
\* their minimum; the default sort kind is not stable, so rows with equal
\* minima come in any order
RowOrders(pre, dets) ==
    { p \in [1..Len(pre) -> 1..Len(pre)] :
        /\ \A i, j \in 1..Len(pre) : i # j => p[i] # p[j]
        /\ \A i, j \in 1..Len(pre) :
              i < j => RowMin(pre, dets, p[i]) <= RowMin(pre, dets, p[j]) }

\* not (D[r, c] > self.max_distance)
WithinDistance(d2, maxd) == ~(d2 > maxd * maxd)

\* the loop of lines 92-102: the committed pairs <<r, c>>
RECURSIVE Greedy(_, _, _, _, _, _)
Greedy(pre, dets, rows, maxd, k, acc) ==
    IF k > Len(rows) THEN acc
    ELSE LET r == rows[k]
             c == ArgMin(pre, dets, r)
         IN IF \/ r \in {a[1] : a \in acc}
               \/ c \in {a[2] : a \in acc}
            THEN Greedy(pre, dets, rows, maxd, k + 1, acc)
            ELSE IF ~WithinDistance(D2(pre, dets, r, c), maxd)
                 THEN Greedy(pre, dets, rows, maxd, k + 1, acc)
                 ELSE Greedy(pre, dets, rows, maxd, k + 1, acc \cup {<<r, c>>})

\* self.objects[oid].update_from_bbox(det["bbox"], frame) for every committed pair
ApplyMatches(pre, dets, matches) ==
    [r \in 1..Len(pre) |->
        IF \E a \in matches : a[1] = r
        THEN update_from_bbox(pre[r], dets[(CHOOSE a \in matches : a[1] = r)[2]])
        ELSE pre[r]]

\* if self.objects[oid].missed > self.max_missed: del self.objects[oid]
Stale(o, maxm) == o.missed > maxm

\* a miss that forgets the count so far
MissReset(o) == [o EXCEPT !.missed = 1]

\* self.objects[oid].missed += 1
Miss(o) == [o EXCEPT !.missed = o.missed + 1]

\* lines 111-116: every unassigned row's key gets a miss and is evicted when
\* stale; oids is object_ids, taken before the call changed the map
RECURSIVE MissLoop(_, _, _, _, _)
MissLoop(m, oids, assigned, maxm, i) ==
    IF i > Len(oids) THEN m
    ELSE IF i \in assigned \/ oids[i] \notin Keys(m)
         THEN MissLoop(m, oids, assigned, maxm, i + 1)
         ELSE LET j == IndexOf(m, oids[i])
                  o == Miss(m[j])
              IN IF Stale(o, maxm)
                 THEN MissLoop(Del(m, oids[i]), oids, assigned, maxm, i + 1)
                 ELSE MissLoop([m EXCEPT ![j] = o], oids, assigned, maxm, i + 1)

\* lines 79-84: every object gets a miss, then the stale ones are removed
MissAll(m, maxm) ==
    LET bumped == [i \in 1..Len(m) |-> Miss(m[i])]
    IN SelectSeq(bumped, LAMBDA o : ~Stale(o, maxm))

\* the map as the program holds it: the per-call row mark dropped
Strip(m) == [i \in 1..Len(m) |-> [id |-> m[i].id, bbox |-> m[i].bbox, missed |-> m[i].missed]]
Origin(m) == [i \in 1..Len(m) |-> m[i].row]

DetLists == UNION {[1..n -> Boxes] : n \in 0..MaxDets}

\* what the call leaves behind: the new map, and the record of the call
Finish(kind, pre, dets, matches, ids, post) ==
    \E m \in {post} :
    /\ objects' = Strip(m)
    /\ call' = [kind |-> kind, pre |-> Strip(pre), dets |-> dets, matches |-> matches,
                newids |-> ids, origin |-> Origin(m)]
    /\ UNCHANGED <<max_missed, max_distance>>

\* CentroidTracker.update, lines 63-67: no objects yet
UpdateEmpty ==
    /\ Len(objects) = 0
    /\ \E dets \in DetLists :
       \E ids \in [1..Len(dets) -> IdSpace] :
          Finish("empty", <<>>, dets, {}, ids,
                 CreateFrom(<<>>, dets, 1..Len(dets), ids, 1, 1))
    /\ UNCHANGED storeVars

\* CentroidTracker.update, lines 69-85: objects, and no detection in the frame
UpdateNoDetections ==
    /\ Len(objects) > 0
    /\ \E pred \in Predictions(objects) :
       \E pre \in {Predicted(objects, pred)} :
          Finish("nodet", pre, <<>>, {}, <<>>, MissAll(pre, max_missed))
    /\ UNCHANGED storeVars

\* CentroidTracker.update, lines 69-75 and 87-117: objects and detections
UpdateMatch ==
    /\ Len(objects) > 0
    /\ \E pred \in Predictions(objects) :
       \E dets \in DetLists \ {<<>>} :
       \E pre \in {Predicted(objects, pred)} :
       \E rows \in RowOrders(pre, dets) :
       \E matches \in {Greedy(pre, dets, rows, max_distance, 1, {})} :
       \E ids \in [1..(Len(dets) - Cardinality(matches)) -> IdSpace] :
          LET arows == {a[1] : a \in matches}
              acols == {a[2] : a \in matches}
              oids == [r \in 1..Len(pre) |-> pre[r].id]
          IN Finish("match", pre, dets, matches, ids,
                    MissLoop(CreateFrom(ApplyMatches(pre, dets, matches), dets,
                                        (1..Len(dets)) \ acols, ids, 1, 1),
                             oids, arows, max_missed, 1))
    /\ UNCHANGED storeVars

NoCall == [kind |-> "none", pre |-> <<>>, dets |-> <<>>, matches |-> {}, newids |-> <<>>,
           origin |-> <<>>]

\* CentroidTracker.__init__
InitTracker ==
    /\ objects = <<>>
    /\ max_missed \in MaxMissedVals
    /\ max_distance \in MaxDistanceVals
    /\ retired = {}
    /\ call = NoCall

----------------------------------------------------------------------------
(* analytics.py *)
(* Times are whole seconds since the epoch.  A minute key is the naive UTC  *)
(* datetime of datetime.utcnow() with the seconds cleared, held as the      *)
(* epoch second it names in UTC.                                            *)

\* most record_detection calls in a run
MaxRecorded == 2
\* most events in the log
MaxEvents == 2
\* the clock stops here
MaxTime == 90

\* the clock advances in steps of
TickSteps == {30}

\* constructor arguments of AnalyticsStore
StoreSecondsVals == {30, 60}
HeatmapBinsVals == { <<2, 1>> }

\* the zones the process may run in: UTC, and one hour east of it
TzOffsets == {0, 3600}

\* ids the caller passes to session_start / session_end
SessionIds == {"a1"}

\* what the caller passes to event()
EventTypes == {"service"}
Payloads == {"p"}

\* what the caller passes to record_detection: boxes and frame shapes <<h, w>>
StoreBoxes == { <<0, 0, 2, 2>>, <<6, 2, 9, 5>> }
FrameShapes == { <<4, 8>> }

\* what the caller passes to busiest_hours
TopNs == {0, 1}

NoResult == <<>>

\* int(x) of the quotient n / d, d > 0: truncation toward zero
IntDiv(n, d) == IF n >= 0 THEN n \div d ELSE -((-n) \div d)

\* np.clip(v, lo, hi)
Clip(v, lo, hi) == IF v < lo THEN lo ELSE IF v > hi THEN hi ELSE v

----------------------------------------------------------------------------
(* Python float arithmetic (IEEE 754 binary64, round to nearest, ties to   *)
(* even) on the operands record_detection gives it.  A float other than 0  *)
(* is its sign, its significand m as a sequence of Precision bits (the     *)
(* first one 1) and the exponent e of its last bit: the value is m * 2^e.  *)

Precision == 53
\* the significand is multiplied in pieces of this many bits
LimbBits == 14

Zeros(n) == [i \in 1..n |-> 0]

\* the binary digits of a natural number, most significant first
BitLen(v) == CHOOSE k \in 0..30 : v < 2^k /\ (k = 0 \/ 2^(k - 1) <= v)
FixedBits(v, n) == [i \in 1..n |-> (v \div 2^(n - i)) % 2]
IntBits(v) == FixedBits(v, BitLen(v))

\* the number the first k digits of bits spell
RECURSIVE NatOf(_, _)
NatOf(bits, k) == IF k = 0 THEN 0 ELSE 2 * NatOf(bits, k - 1) + bits[k]

\* bits without its leading zeros
Normal(bits) ==
    IF \A i \in 1..Len(bits) : bits[i] = 0 THEN <<>>
    ELSE SubSeq(bits, CHOOSE j \in 1..Len(bits) :
                          bits[j] = 1 /\ \A i \in 1..(j - 1) : bits[i] = 0, Len(bits))

\* bits + 1
Succ(bits) ==
    IF \A i \in 1..Len(bits) : bits[i] = 1 THEN <<1>> \o Zeros(Len(bits))
    ELSE LET j == CHOOSE j \in 1..Len(bits) :
                      bits[j] = 0 /\ \A i \in (j + 1)..Len(bits) : bits[i] = 1
         IN [i \in 1..Len(bits) |-> IF i < j THEN bits[i] ELSE IF i = j THEN 1 ELSE 0]

FloatZero == [neg |-> FALSE, m |-> <<>>, e |-> 0]

\* the float nearest to bits * 2^e (plus a nonzero part below the last bit
\* when sticky), ties to the even significand
RoundNearestEven(neg, bits, e, sticky) ==
    LET L == Len(bits)
    IN IF L <= Precision
       THEN [neg |-> neg, m |-> bits \o Zeros(Precision - L), e |-> e - (Precision - L)]
       ELSE LET head == SubSeq(bits, 1, Precision)
                guard == bits[Precision + 1]
                rest == sticky \/ \E i \in (Precision + 2)..L : bits[i] = 1
                up == guard = 1 /\ (rest \/ head[Precision] = 1)
                m == IF up THEN Succ(head) ELSE head
            IN [neg |-> neg, m |-> SubSeq(m, 1, Precision),
                e |-> e + (L - Precision) + (Len(m) - Precision)]

\* 2^j mod w
RECURSIVE Pow2Mod(_, _)
Pow2Mod(j, w) ==
    IF j = 0 THEN 1 % w
    ELSE LET h == Pow2Mod(j \div 2, w)
         IN (h * h * (IF j % 2 = 1 THEN 2 ELSE 1)) % w

\* long division of r by w (r < w): the remainder after j binary places, and
\* the j-th binary place of the quotient
Remainder(r, w, j) == (r * Pow2Mod(j, w)) % w
FracBit(r, w, j) == (2 * Remainder(r, w, j - 1)) \div w

\* a / w of two ints, w > 0: the quotient correctly rounded
FloatDiv(a, w) ==
    IF a = 0 THEN FloatZero
    ELSE LET n == IF a < 0 THEN -a ELSE a
             r == n % w
             ip == IntBits(n \div w)
             z == IF ip # <<>> THEN 0
                  ELSE (CHOOSE j \in 1..31 :
                           FracBit(r, w, j) = 1 /\ \A i \in 1..(j - 1) : FracBit(r, w, i) = 0) - 1
             need == Precision + 1 - Len(ip)
         IN RoundNearestEven(a < 0, ip \o [i \in 1..need |-> FracBit(r, w, z + i)],
                             -(z + need), Remainder(r, w, z + need) # 0)

\* the j-th piece of LimbBits bits, as a number
Limb(bits, j) == NatOf(SubSeq(bits, LimbBits * (j - 1) + 1, LimbBits * j), LimbBits)

\* the digits of bits * n, piece by piece from the last one, with carry
RECURSIVE Product(_, _, _, _)
Product(bits, n, j, carry) ==
    IF j = 0 THEN IntBits(carry)
    ELSE LET t == Limb(bits, j) * n + carry
         IN Product(bits, n, j - 1, t \div 2^LimbBits) \o FixedBits(t % 2^LimbBits, LimbBits)

\* x * n of a float and an int (the int converts exactly): the product rounded
FloatMul(x, n) ==
    IF x.m = <<>> \/ n = 0 THEN FloatZero
    ELSE LET a == IF n < 0 THEN -n ELSE n
             pad == (LimbBits - (Len(x.m) % LimbBits)) % LimbBits
             bits == Zeros(pad) \o x.m
         IN RoundNearestEven(x.neg # (n < 0),
                             Normal(Product(bits, a, Len(bits) \div LimbBits, 0)), x.e, FALSE)

\* int(x) of a float: truncation toward zero
TruncInt(x) ==
    IF x.m = <<>> \/ Len(x.m) + x.e <= 0 THEN 0
    ELSE LET v == NatOf(x.m, Len(x.m) + x.e)
         IN IF x.neg THEN -v ELSE v

----------------------------------------------------------------------------

\* record_detection, lines 26-33: the heatmap cell of a box.  (x1 + x2) / 2
\* is exact in binary64, so int() of it is IntDiv; cx / w * bins is a float
\* division followed by a float multiplication.
Cell(bbox, shape, bins) ==
    LET h == shape[1]
        w == shape[2]
        cx == IntDiv(bbox[1] + bbox[3], 2)
        cy == IntDiv(bbox[2] + bbox[4], 2)
    IN <<Clip(TruncInt(FloatMul(FloatDiv(cx, w), bins[1])), 0, bins[1] - 1),
         Clip(TruncInt(FloatMul(FloatDiv(cy, h), bins[2])), 0, bins[2] - 1)>>

\* now.replace(second=0, microsecond=0)
MinuteKey(t) == t - (t % 60)

\* t.replace(minute=0, second=0, microsecond=0)
HourKey(k) == k - (k % 3600)

\* k.timestamp() of a naive datetime: the datetime is read as local time
Timestamp(k, tz) == k - tz

\* k.isoformat() of an hour key: the date (days since the epoch) and the hour
IsoFormat(k) == <<k \div 86400, (k % 86400) \div 3600>>

Restrict(f, S) == [x \in S |-> f[x]]

\* self.minute_buckets[minute_key] += 1 on a defaultdict(int)
Bump(b, k) ==
    [x \in DOMAIN b \cup {k} |-> IF x = k THEN (IF k \in DOMAIN b THEN b[k] + 1 ELSE 1) ELSE b[x]]

\* the test of _cleanup_old on an event: it is kept when
EventKept(e, cutoff) == e.ts >= cutoff

\* the test of _cleanup_old on a minute bucket: it is deleted when
BucketExpired(k, cutoff, tz) == Timestamp(k, tz) < cutoff

\* AnalyticsStore._cleanup_old: the events and buckets it leaves
CleanEvents(evs, t, keep) == SelectSeq(evs, LAMBDA e : EventKept(e, t - keep))
CleanBuckets(b, t, keep, tz) ==
    Restrict(b, {k \in DOMAIN b : ~BucketExpired(k, t - keep, tz)})

\* AnalyticsStore.event: the log with the event appended (no purge here)
EventAppended(evs, t, type, payload) == Append(evs, [ts |-> t, t |-> type, p |-> payload])

\* what the caller passes to record_detection where the heatmap is looked at:
\* a box inside the frame, one left of and above it, one right of and below
\* it, one with odd coordinate sums, and one centred on (1919, 1079)
GridBoxes == { <<14, 0, 16, 0>>, <<-9, -3, -1, -1>>, <<40, 6, 50, 8>>, <<0, 0, 7, 1>>,
               <<1918, 1078, 1920, 1080>> }
GridShapes == { <<4, 22>>, <<1080, 1920>> }
GridBinsVals == { <<22, 1>>, <<32, 18>> }

\* Cell on every input of the specifications, computed once
Cells ==
    {<<a, Cell(a[1], a[2], a[3])>> :
        a \in (StoreBoxes \X FrameShapes \X HeatmapBinsVals)
                 \cup (GridBoxes \X GridShapes \X GridBinsVals)}
CellOf(bbox, shape, bins) == (CHOOSE t \in Cells : t[1] = <<bbox, shape, bins>>)[2]

\* self.heatmap[bx, by] = 1: an assignment in place of the increment
Marked(h, c) == [h EXCEPT ![c] = 1]

\* self.heatmap[bx, by] += 1
Counted(h, c) == [h EXCEPT ![c] = @ + 1]

\* AnalyticsStore.record_detection
RecordDetection(id, bbox, shape) ==
    /\ Len(detlog) < MaxRecorded
    /\ heatmap' = Counted(heatmap, CellOf(bbox, shape, heatmap_bins))
    /\ minute_buckets' = CleanBuckets(Bump(minute_buckets, MinuteKey(now)), now,
                                      store_seconds, tz_offset)
    /\ events' = CleanEvents(events, now, store_seconds)
    /\ detlog' = Append(detlog, now)
    /\ last' = [op |-> "record_detection", id |-> id, at |-> now, hit |-> TRUE, res |-> NoResult]
    /\ UNCHANGED <<now, store_seconds, tz_offset, active_sessions, heatmap_bins>>

\* AnalyticsStore.event
Event(type, payload) ==
    /\ Len(events) < MaxEvents
    /\ events' = EventAppended(events, now, type, payload)
    /\ last' = [op |-> "event", id |-> "", at |-> now, hit |-> TRUE, res |-> NoResult]
    /\ UNCHANGED <<now, store_seconds, tz_offset, active_sessions, minute_buckets,
                   heatmap_bins, heatmap, detlog>>

\* session_start that always records the current time
StartedAlways(sessions, id, t) ==
    [x \in DOMAIN sessions \cup {id} |-> IF x = id THEN t ELSE sessions[x]]

\* AnalyticsStore.session_start: the sessions it leaves
Started(sessions, id, t) ==
    IF id \notin DOMAIN sessions
    THEN [x \in DOMAIN sessions \cup {id} |-> IF x = id THEN t ELSE sessions[x]]
    ELSE sessions

\* AnalyticsStore.session_start
SessionStart(id) ==
    /\ active_sessions' = Started(active_sessions, id, now)
    /\ last' = [op |-> "session_start", id |-> id, at |-> now,
                hit |-> id \notin DOMAIN active_sessions, res |-> NoResult]
    /\ UNCHANGED <<now, store_seconds, tz_offset, events, minute_buckets,
                   heatmap_bins, heatmap, detlog>>

\* session_end that reads the start time and leaves the session open
Peeked(sessions, id) == sessions

\* self.active_sessions.pop(obj_id, None): the sessions it leaves
Popped(sessions, id) == Restrict(sessions, DOMAIN sessions \ {id})

\* duration = time.time() - start
Duration(t, start) == t - start

\* AnalyticsStore.session_end
SessionEnd(id) ==
    /\ id \in DOMAIN active_sessions => Len(events) < MaxEvents
    /\ active_sessions' = Popped(active_sessions, id)
    /\ events' = IF id \in DOMAIN active_sessions
                 THEN EventAppended(events, now, "session_end",
                                    [id |-> id, duration |-> Duration(now, active_sessions[id])])
                 ELSE events
    /\ last' = [op |-> "session_end", id |-> id, at |-> now,
                hit |-> id \in DOMAIN active_sessions, res |-> NoResult]
    /\ UNCHANGED <<now, store_seconds, tz_offset, minute_buckets, heatmap_bins, heatmap,
                   detlog>>

RECURSIVE SumOver(_, _)
SumOver(b, S) ==
    IF S = {} THEN 0
    ELSE LET k == CHOOSE x \in S : TRUE IN b[k] + SumOver(b, S \ {k})

\* df.groupby(hour).count(): hour key -> number of minute buckets
HourCounts(b) ==
    [h \in {HourKey(k) : k \in DOMAIN b} |->
        Cardinality({k \in DOMAIN b : HourKey(k) = h})]

\* df.groupby(hour).sum(): hour key -> summed count
HourSums(b) ==
    [h \in {HourKey(k) : k \in DOMAIN b} |->
        SumOver(b, {k \in DOMAIN b : HourKey(k) = h})]

\* df_hour.sort_values(ascending=False): the hours by count, largest first; the
\* default sort kind is not stable, so equal counts come in any order
SortedHours(hs) ==
    { s \in [1..Cardinality(DOMAIN hs) -> DOMAIN hs] :
        /\ \A i, j \in DOMAIN s : i # j => s[i] # s[j]
        /\ \A i, j \in DOMAIN s : i < j => hs[s[i]] >= hs[s[j]] }

\* df_hour.head(top_n) as a list of (k.isoformat(), int(v))
HeadList(hs, s, top_n) ==
    [i \in 1..(IF top_n < Len(s) THEN top_n ELSE Len(s)) |-> <<IsoFormat(s[i]), hs[s[i]]>>]

\* AnalyticsStore.busiest_hours
BusiestHours(top_n) ==
    /\ \E hs \in {HourSums(minute_buckets)} :
       \E s \in SortedHours(hs) :
          last' = [op |-> "busiest_hours", id |-> "", at |-> now, hit |-> TRUE,
                   res |-> IF DOMAIN minute_buckets = {} THEN <<>> ELSE HeadList(hs, s, top_n)]
    /\ UNCHANGED <<now, store_seconds, tz_offset, events, active_sessions, minute_buckets,
                   heatmap_bins, heatmap, detlog>>

\* time passes
Tick ==
    /\ \E d \in TickSteps :
          /\ now + d <= MaxTime
          /\ now' = now + d
    /\ UNCHANGED <<store_seconds, tz_offset, events, active_sessions, minute_buckets,
                   heatmap_bins, heatmap, detlog, last>>

\* the caller holds no array yet
NoArray == [held |-> FALSE, alias |-> FALSE, grid |-> <<>>]

\* return self.heatmap: the store's own array
Same(h) == [held |-> TRUE, alias |-> TRUE, grid |-> h]

\* self.heatmap.copy(): a new array with the content the store's array has now
Copy(h) == [held |-> TRUE, alias |-> FALSE, grid |-> h]

\* what the holder of an array sees in it
View(a, h) == IF a.alias THEN h ELSE a.grid

\* AnalyticsStore.get_heatmap
GetHeatmap ==
    /\ returned' = Copy(heatmap)
    /\ last' = [op |-> "get_heatmap", id |-> "", at |-> now, hit |-> TRUE, res |-> NoResult]
    /\ UNCHANGED <<now, store_seconds, tz_offset, events, active_sessions, minute_buckets,
                   heatmap_bins, heatmap, detlog, seen>>

\* the cell and the value of an assignment the caller makes in the array it got
CallerCells == { <<0, 0>> }
CallerValues == { 7 }

\* the caller of get_heatmap assigns array[c] = v in the array it holds
CallerWrites(c, v) ==
    /\ returned.held
    /\ IF returned.alias
       THEN heatmap' = [heatmap EXCEPT ![c] = v] /\ UNCHANGED returned
       ELSE returned' = [returned EXCEPT !.grid[c] = v] /\ UNCHANGED heatmap
    /\ last' = [op |-> "caller_write", id |-> "", at |-> now, hit |-> TRUE, res |-> NoResult]
    /\ UNCHANGED <<now, store_seconds, tz_offset, events, active_sessions, minute_buckets,
                   heatmap_bins, detlog, seen>>

NoOp == [op |-> "none", id |-> "", at |-> 0, hit |-> FALSE, res |-> NoResult]

\* AnalyticsStore.__init__
InitStore ==
    /\ now = 0
    /\ store_seconds \in StoreSecondsVals
    /\ tz_offset \in TzOffsets
    /\ events = <<>>
    /\ active_sessions = <<>>
    /\ minute_buckets = <<>>
    /\ heatmap_bins \in HeatmapBinsVals
    /\ heatmap = [c \in (0..(heatmap_bins[1] - 1)) \X (0..(heatmap_bins[2] - 1)) |-> 0]
    /\ detlog = <<>>
    /\ last = NoOp

\* the tracker before its first frame (it is idle in the store's specification)
InitTrackerIdle ==
    /\ objects = <<>>
    /\ max_missed = 1
    /\ max_distance = 1
    /\ retired = {}
    /\ call = NoCall

\* the store as constructed (it is idle in the tracker's specification)
InitStoreIdle ==
    /\ now = 0
    /\ store_seconds = 60
    /\ tz_offset = 0
    /\ events = <<>>
    /\ active_sessions = <<>>
    /\ minute_buckets = <<>>
    /\ heatmap_bins = <<2, 1>>
    /\ heatmap = [c \in (0..1) \X (0..0) |-> 0]
    /\ detlog = <<>>
    /\ last = NoOp

----------------------------------------------------------------------------
(* anomaly_detector.py *)
(* A dict is a function from its keys; a value read for its truth is its   *)
(* type and its number (a bool is the int 0 or 1, None has the type        *)
(* NoneType).                                                               *)

PyNone == [ty |-> "NoneType", v |-> 0]
PyInt(n) == [ty |-> "int", v |-> n]
PyBool(b) == [ty |-> "bool", v |-> IF b THEN 1 ELSE 0]

\* bool(x): None, False and 0 are false
Truthy(x) == x.ty # "NoneType" /\ x.v # 0

\* d.get(k, default)
Get(d, k, default) == IF k \in DOMAIN d THEN d[k] ELSE default

\* most calls of the POS adapter in a run
MaxPosCalls == 2

\* the pos_adapter argument of the constructor: None, the stub of the class
\* (it finds nothing), or an adapter that looks transactions up
PosAdapters == {"None", "pos_adapter_stub", "pos_lookup"}

\* what an adapter may return: a list of matching transactions
PosMatches(adapter) ==
    IF adapter = "pos_adapter_stub" THEN { <<>> } ELSE { <<>>, <<"tx1">>, <<"tx1", "tx2">> }

\* the thresholds argument of the constructor: None, or a dict of its own
ThresholdArgs == { <<>>, [no_pos_time_window |-> 60, min_service_duration |-> 10] }

\* thresholds or {"no_pos_time_window": 300, "min_service_duration": 30}
ThresholdsOrDefault(t) ==
    IF DOMAIN t = {} THEN [no_pos_time_window |-> 300, min_service_duration |-> 30] ELSE t

\* the events passed to check_service_event, with and without "ts"
ServiceEvents ==
    { [type |-> "service", service_type |-> "haircut", obj_id |-> "a1", ts |-> 40],
      [type |-> "service", service_type |-> "haircut", obj_id |-> "a1"] }

\* the session summaries passed to check_early_checkout: id and start_ts, with
\* end_ts absent, None, 0 or later, and registered_checkout absent or a bool
EndTsVals == { PyNone, PyInt(0), PyInt(50) }
SessionInfos ==
    LET base == [k \in {"id", "start_ts"} |-> IF k = "id" THEN PyInt(1) ELSE PyInt(0)]
        with(d, k, S) == {d} \cup {[x \in DOMAIN d \cup {k} |-> IF x = k THEN val ELSE d[x]] : val \in S}
    IN UNION { with(d, "registered_checkout", {PyBool(TRUE), PyBool(FALSE)}) :
                   d \in with(base, "end_ts", EndTsVals) }

NoAnswer == [op |-> "none", arg |-> <<>>, res |-> <<>>]

\* if pos_matches: the anomaly is reported when the adapter found something
Matched(pos_matches) == pos_matches # <<>>

\* if not pos_matches
NotMatched(pos_matches) == pos_matches = <<>>

\* AnomalyDetector.check_service_event: the list it returns, given what the
\* adapter (if any) returned
ServiceAnomalies(adapter, event, pos_matches) ==
    IF adapter # "None"
    THEN IF NotMatched(pos_matches)
         THEN << [t |-> "unreported_service", detail |-> event] >>
         ELSE <<>>
    ELSE << [t |-> "unreported_service_no_pos_adapter", detail |-> event] >>

\* AnomalyDetector.check_service_event
CheckServiceEvent(event) ==
    /\ \/ /\ anomaly_detector.pos_adapter # "None"
          /\ Len(pos_calls) < MaxPosCalls
          /\ \E pos_matches \in PosMatches(anomaly_detector.pos_adapter) :
                /\ pos_calls' = Append(pos_calls,
                       [event |-> event,
                        window_seconds |-> anomaly_detector.thresholds["no_pos_time_window"],
                        matches |-> pos_matches])
                /\ answer' = [op |-> "check_service_event", arg |-> event,
                              res |-> ServiceAnomalies(anomaly_detector.pos_adapter, event,
                                                       pos_matches)]
       \/ /\ anomaly_detector.pos_adapter = "None"
          /\ pos_calls' = pos_calls
          /\ answer' = [op |-> "check_service_event", arg |-> event,
                        res |-> ServiceAnomalies("None", event, <<>>)]
    /\ UNCHANGED anomaly_detector

\* AnomalyDetector.check_early_checkout: the list it returns
CheckoutAnomalies(session_info) ==
    IF ~Truthy(Get(session_info, "registered_checkout", PyBool(FALSE)))
          /\ Truthy(Get(session_info, "end_ts", PyNone))
    THEN << [t |-> "unregistered_checkout", detail |-> session_info] >>
    ELSE <<>>

\* AnomalyDetector.check_early_checkout
CheckEarlyCheckout(session_info) ==
    /\ answer' = [op |-> "check_early_checkout", arg |-> session_info,
                  res |-> CheckoutAnomalies(session_info)]
    /\ UNCHANGED <<anomaly_detector, pos_calls>>

\* AnomalyDetector.__init__
InitAnomaly ==
    /\ \E adapter \in PosAdapters, t \in ThresholdArgs :
          anomaly_detector = [pos_adapter |-> adapter, booking_adapter |-> "None",
                              thresholds |-> ThresholdsOrDefault(t)]
    /\ pos_calls = <<>>
    /\ answer = NoAnswer

\* the AnomalyDetector of app.py: AnomalyDetector(), never called
InitAnomalyIdle ==
    /\ anomaly_detector = [pos_adapter |-> "None", booking_adapter |-> "None",
                           thresholds |-> ThresholdsOrDefault(<<>>)]
    /\ pos_calls = <<>>
    /\ answer = NoAnswer

----------------------------------------------------------------------------
(* utils.py *)
(* capture.read() returns a new array at every call, and nothing writes in *)
(* an array once it is returned: a frame is the number of the capture that *)
(* produced it, and a copy of a frame is that frame.                        *)

\* most capture.read() calls in a run
MaxCaptures == 3

\* the frame of the n-th capture, and the tuple (False, None)
Frame(n) == [ty |-> "ndarray", v |-> n]
FalseNone == [ty |-> "tuple", v |-> 0]

\* capture.read(): the n-th call delivers a frame, or fails with (False, None)
CaptureReads(n) == { [ret |-> TRUE, frame |-> Frame(n)], [ret |-> FALSE, frame |-> PyNone] }

\* with self.lock: a thread enters when no thread holds the lock
Free(l) == l = "free"

\* VideoStreamAsync.start
Start ==
    /\ ~stream.running
    /\ stream' = [stream EXCEPT !.running = TRUE]
    /\ capture_thread' = [capture_thread EXCEPT !.pc = "while"]
    /\ UNCHANGED <<lock, reader, captures, completed>>

\* update: while self.running
UpdateWhile ==
    /\ capture_thread.pc = "while"
    /\ capture_thread' = [capture_thread EXCEPT !.pc = IF stream.running THEN "capture" ELSE "done"]
    /\ UNCHANGED <<stream, lock, reader, captures, completed>>

\* update: ret, frame = self.capture.read()
UpdateCapture ==
    /\ capture_thread.pc = "capture"
    /\ captures < MaxCaptures
    /\ \E got \in CaptureReads(captures + 1) :
          capture_thread' = [pc |-> "lock", ret |-> got.ret, frame |-> got.frame]
    /\ captures' = captures + 1
    /\ UNCHANGED <<stream, lock, reader, completed>>

\* update: with self.lock
UpdateLock ==
    /\ capture_thread.pc = "lock"
    /\ Free(lock)
    /\ lock' = "update"
    /\ capture_thread' = [capture_thread EXCEPT !.pc = "ret"]
    /\ UNCHANGED <<stream, reader, captures, completed>>

\* update: self.ret = ret
UpdateRet ==
    /\ capture_thread.pc = "ret"
    /\ stream' = [stream EXCEPT !.ret = capture_thread.ret]
    /\ capture_thread' = [capture_thread EXCEPT !.pc = "frame"]
    /\ UNCHANGED <<lock, reader, captures, completed>>

\* update: self.frame = frame
UpdateFrame ==
    /\ capture_thread.pc = "frame"
    /\ stream' = [stream EXCEPT !.frame = capture_thread.frame]
    /\ capture_thread' = [capture_thread EXCEPT !.pc = "unlock"]
    /\ UNCHANGED <<lock, reader, captures, completed>>

\* update: the end of the with block (and the sleep after a failed capture):
\* the capture iteration is complete
UpdateUnlock ==
    /\ capture_thread.pc = "unlock"
    /\ lock' = "free"
    /\ completed' = [ret |-> capture_thread.ret, frame |-> capture_thread.frame]
    /\ capture_thread' = [capture_thread EXCEPT !.pc = "while"]
    /\ UNCHANGED <<stream, reader, captures>>

\* read: the call, up to with self.lock
ReadLock ==
    /\ reader.pc = "lock"
    /\ Free(lock)
    /\ lock' = "read"
    /\ reader' = [reader EXCEPT !.pc = "ret", !.at = completed]
    /\ UNCHANGED <<stream, capture_thread, captures, completed>>

\* read: the first element of the returned tuple, self.ret
ReadRet ==
    /\ reader.pc = "ret"
    /\ reader' = [reader EXCEPT !.pc = "frame", !.ret = stream.ret]
    /\ UNCHANGED <<stream, lock, capture_thread, captures, completed>>

\* read: the second element of the returned tuple,
\* self.frame.copy() if self.frame is not None else (False, None)
ReadFrame ==
    /\ reader.pc = "frame"
    /\ reader' = [reader EXCEPT !.pc = "unlock",
                                !.frame = IF stream.frame # PyNone THEN stream.frame
                                          ELSE FalseNone]
    /\ UNCHANGED <<stream, lock, capture_thread, captures, completed>>

\* read: the end of the with block and the return
ReadReturn ==
    /\ reader.pc = "unlock"
    /\ lock' = "free"
    /\ reader' = [reader EXCEPT !.pc = "lock", !.res = <<reader.ret, reader.frame>>]
    /\ UNCHANGED <<stream, capture_thread, captures, completed>>

\* VideoStreamAsync.__init__: the first capture, made by the constructor
InitStream ==
    /\ \E got \in CaptureReads(1) :
          /\ stream = [ret |-> got.ret, frame |-> got.frame, running |-> FALSE]
          /\ completed = got
    /\ lock = "free"
    /\ capture_thread = [pc |-> "unstarted", ret |-> FALSE, frame |-> PyNone]
    /\ reader = [pc |-> "lock", ret |-> FALSE, frame |-> PyNone, at |-> <<>>, res |-> <<>>]
    /\ captures = 1

\* a stream nobody reads (idle in the other specifications)
InitStreamIdle ==
    /\ stream = [ret |-> FALSE, frame |-> PyNone, running |-> FALSE]
    /\ completed = [ret |-> FALSE, frame |-> PyNone]
    /\ lock = "free"
    /\ capture_thread = [pc |-> "unstarted", ret |-> FALSE, frame |-> PyNone]
    /\ reader = [pc |-> "lock", ret |-> FALSE, frame |-> PyNone, at |-> <<>>, res |-> <<>>]
    /\ captures = 1

\* app.py, "if start_button": the camera sources of the sidebar, in order
Streams == <<"cam0", "cam1">>

\* the main loop is about to serve the first camera
InitLoop ==
    /\ turn = 1
    /\ owner = <<>>

\* most stop() calls in a run: app.py calls it in the except and in the finally path
MaxStops == 2

\* nobody has called stop()
InitStop ==
    /\ stopper = [pc |-> "idle", calls |-> 0]
    /\ released = 0

\* the thread of update() is alive: started and not yet returned
Alive(t) == t.pc \notin {"unstarted", "done"}

\* stop: self.running = False
StopRunning ==
    /\ stopper.pc = "idle"
    /\ stopper.calls < MaxStops
    /\ stream' = [stream EXCEPT !.running = FALSE]
    /\ stopper' = [pc |-> "join", calls |-> stopper.calls + 1]
    /\ UNCHANGED <<lock, capture_thread, reader, captures, completed, released>>

\* stop: self.thread.join(timeout=0.5) returns because the thread has ended, or
\* raises because start() never made self.thread (the exception is swallowed)
StopJoin ==
    /\ stopper.pc = "join"
    /\ ~Alive(capture_thread)
    /\ stopper' = [stopper EXCEPT !.pc = "release"]
    /\ UNCHANGED <<stream, lock, capture_thread, reader, captures, completed, released>>

\* stop: self.thread.join(timeout=0.5) returns after 0.5 s with the thread
\* alive: it is in capture.read(), which blocks as long as the camera does
StopJoinTimeout ==
    /\ stopper.pc = "join"
    /\ capture_thread.pc = "capture"
    /\ stopper' = [stopper EXCEPT !.pc = "release"]
    /\ UNCHANGED <<stream, lock, capture_thread, reader, captures, completed, released>>

\* stop: self.capture.release()
StopRelease ==
    /\ stopper.pc = "release"
    /\ released' = released + 1
    /\ stopper' = [stopper EXCEPT !.pc = "idle"]
    /\ UNCHANGED <<stream, lock, capture_thread, reader, captures, completed>>

InitRestIdle == InitAnomalyIdle /\ InitStreamIdle /\ InitLoop /\ InitStop

\* nobody has called get_heatmap or record_detection yet
InitCaller ==
    /\ seen = <<>>
    /\ returned = NoArray

\* the variables the store's specification leaves alone
besideStore == <<trackerVars, callerVars, restVars>>

StoreInit == InitStore /\ InitTrackerIdle /\ InitCaller /\ InitRestIdle
StoreNext ==
    \/ \E id \in SessionIds, bbox \in StoreBoxes, shape \in FrameShapes :
          RecordDetection(id, bbox, shape) /\ UNCHANGED besideStore
    \/ \E type \in EventTypes, payload \in Payloads :
          Event(type, payload) /\ UNCHANGED besideStore
    \/ \E id \in SessionIds : SessionStart(id) /\ UNCHANGED besideStore
    \/ \E id \in SessionIds : SessionEnd(id) /\ UNCHANGED besideStore
    \/ \E top_n \in TopNs : BusiestHours(top_n) /\ UNCHANGED besideStore
    \/ Tick /\ UNCHANGED besideStore
SpecStore == StoreInit /\ [][StoreNext]_vars

\* AnalyticsStore.__init__ with the grids of GridBinsVals and the default
\* store_seconds
InitGrid ==
    /\ now = 0
    /\ store_seconds = 3600 * 24
    /\ tz_offset = 0
    /\ events = <<>>
    /\ active_sessions = <<>>
    /\ minute_buckets = <<>>
    /\ heatmap_bins \in GridBinsVals
    /\ heatmap = [c \in (0..(heatmap_bins[1] - 1)) \X (0..(heatmap_bins[2] - 1)) |-> 0]
    /\ detlog = <<>>
    /\ last = NoOp

\* most hours asked of busiest_hours
MaxTopN == 3

\* the minute keys and the counts of the bucket maps busiest_hours is applied
\* to: two minutes of one hour, the next hour, and the same hour a day later
HourBucketKeys == {0, 60, 3600, 90000}
BucketCounts == {3, 5}
BucketMaps == UNION {[K -> BucketCounts] : K \in SUBSET HourBucketKeys}

\* a store that has recorded detections: any bucket map, all of it retained
InitHours ==
    /\ now = 90060
    /\ store_seconds = 2 * 3600 * 24
    /\ tz_offset = 0
    /\ events = <<>>
    /\ active_sessions = <<>>
    /\ minute_buckets \in BucketMaps
    /\ heatmap_bins = <<2, 1>>
    /\ heatmap = [c \in (0..1) \X (0..0) |-> 0]
    /\ detlog = <<>>
    /\ last = NoOp

\* busiest_hours alone, on every bucket map
HoursInit == InitHours /\ InitTrackerIdle /\ InitCaller /\ InitRestIdle
HoursNext ==
    \E top_n \in 0..MaxTopN :
        BusiestHours(top_n) /\ seen' = <<top_n>> /\ UNCHANGED <<trackerVars, returned, restVars>>
SpecHours == HoursInit /\ [][HoursNext]_vars

\* the heatmap alone: detections of any box in any frame, and a caller that
\* takes the heatmap and writes in what it got
GridInit == InitGrid /\ InitTrackerIdle /\ InitCaller /\ InitRestIdle
GridNext ==
    \/ \E id \in SessionIds, bbox \in GridBoxes, shape \in GridShapes :
          /\ RecordDetection(id, bbox, shape)
          /\ seen' = <<bbox, shape>>
          /\ UNCHANGED <<trackerVars, returned, restVars>>
    \/ GetHeatmap /\ UNCHANGED <<trackerVars, restVars>>
    \/ \E c \in CallerCells, v \in CallerValues : CallerWrites(c, v) /\ UNCHANGED <<trackerVars, restVars>>
SpecGrid == GridInit /\ [][GridNext]_vars

\* the anomaly rules alone
besideAnomaly == <<trackerVars, storeVars, callerVars, streamVars, loopVars, stopVars>>
AnomalyInit ==
    InitAnomaly /\ InitTrackerIdle /\ InitStoreIdle /\ InitCaller /\ InitStreamIdle /\ InitLoop /\ InitStop
AnomalyNext ==
    \/ \E event \in ServiceEvents : CheckServiceEvent(event) /\ UNCHANGED besideAnomaly
    \/ \E session_info \in SessionInfos :
          CheckEarlyCheckout(session_info) /\ UNCHANGED besideAnomaly
SpecAnomaly == AnomalyInit /\ [][AnomalyNext]_vars

\* one stream: the capture thread and a thread that calls read() again and again
besideStream == <<trackerVars, storeVars, callerVars, anomalyVars, loopVars, stopVars>>
StreamInit ==
    InitStream /\ InitTrackerIdle /\ InitStoreIdle /\ InitCaller /\ InitAnomalyIdle /\ InitLoop /\ InitStop
StreamNext ==
    \/ Start /\ UNCHANGED besideStream
    \/ UpdateWhile /\ UNCHANGED besideStream
    \/ UpdateCapture /\ UNCHANGED besideStream
    \/ UpdateLock /\ UNCHANGED besideStream
    \/ UpdateRet /\ UNCHANGED besideStream
    \/ UpdateFrame /\ UNCHANGED besideStream
    \/ UpdateUnlock /\ UNCHANGED besideStream
    \/ ReadLock /\ UNCHANGED besideStream
    \/ ReadRet /\ UNCHANGED besideStream
    \/ ReadFrame /\ UNCHANGED besideStream
    \/ ReadReturn /\ UNCHANGED besideStream
SpecStream == StreamInit /\ [][StreamNext]_vars

\* one stream, the thread of update() and the thread that calls start() and
\* stop(): start() is called when no thread of an earlier start() is alive and,
\* being called by the thread that calls stop(), not in the middle of a stop();
\* a released capture delivers no frame
besideStop == <<trackerVars, storeVars, callerVars, anomalyVars, loopVars>>
StopInit ==
    InitStream /\ InitStop /\ InitTrackerIdle /\ InitStoreIdle /\ InitCaller
               /\ InitAnomalyIdle /\ InitLoop
StopNext ==
    \/ /\ Start
       /\ ~Alive(capture_thread)
       /\ stopper.pc = "idle"
       /\ UNCHANGED <<besideStop, stopVars>>
    \/ UpdateWhile /\ UNCHANGED <<besideStop, stopVars>>
    \/ /\ UpdateCapture
       /\ released > 0 => ~capture_thread'.ret
       /\ UNCHANGED <<besideStop, stopVars>>
    \/ UpdateLock /\ UNCHANGED <<besideStop, stopVars>>
    \/ UpdateRet /\ UNCHANGED <<besideStop, stopVars>>
    \/ UpdateFrame /\ UNCHANGED <<besideStop, stopVars>>
    \/ UpdateUnlock /\ UNCHANGED <<besideStop, stopVars>>
    \/ StopRunning /\ UNCHANGED besideStop
    \/ StopJoin /\ UNCHANGED besideStop
    \/ StopJoinTimeout /\ UNCHANGED besideStop
    \/ StopRelease /\ UNCHANGED besideStop
SpecStop == StopInit /\ [][StopNext]_vars

\* the ids the last call evicted: keys the map held, or created, and lost
Evicted(c, m) ==
    (Keys(c.pre) \cup {c.newids[k] : k \in 1..Len(c.newids)}) \ Keys(m)

TrackerInit == InitTracker /\ InitStoreIdle /\ InitCaller /\ InitRestIdle

\* the tracker alone, frame after frame
TrackerNext ==
    \/ UpdateEmpty /\ UNCHANGED <<retired, callerVars, restVars>>
    \/ UpdateNoDetections /\ UNCHANGED <<retired, callerVars, restVars>>
    \/ UpdateMatch /\ UNCHANGED <<retired, callerVars, restVars>>
SpecTracker == TrackerInit /\ [][TrackerNext]_vars

\* the same, with the history of evicted ids
TrackerIdsNext ==
    \/ UpdateEmpty /\ retired' = retired \cup Evicted(call', objects') /\ UNCHANGED <<callerVars, restVars>>
    \/ UpdateNoDetections /\ retired' = retired \cup Evicted(call', objects') /\ UNCHANGED <<callerVars, restVars>>
    \/ UpdateMatch /\ retired' = retired \cup Evicted(call', objects') /\ UNCHANGED <<callerVars, restVars>>
SpecTrackerIds == TrackerInit /\ [][TrackerIdsNext]_vars

\* app.py, for src, vs in streams: the next camera, the first again after the last
NextTurn(i) == IF i = Len(Streams) THEN 1 ELSE i + 1

\* the camera of each object after a tracker.update made for src: an object
\* created in the call belongs to src, the others keep their camera
Owners(src) ==
    [j \in 1..Len(objects') |->
        IF call'.origin[j] = 0 THEN src ELSE owner[call'.origin[j]]]

\* app.py lines 94-96: the camera's read gave no frame, the loop goes on
SkipCamera ==
    /\ turn' = NextTurn(turn)
    /\ seen' = <<>>
    /\ UNCHANGED <<trackerVars, storeVars, returned, owner, anomalyVars, streamVars, stopVars>>

\* app.py lines 93-102: the camera's frame goes to the one tracker of init_tracker;
\* seen is the camera the frame came from
ServeCamera(update) ==
    /\ update
    /\ turn' = NextTurn(turn)
    /\ seen' = <<Streams[turn]>>
    /\ owner' = Owners(Streams[turn])
    /\ UNCHANGED <<retired, returned, anomalyVars, streamVars, stopVars>>

LoopInit == InitTracker /\ InitStoreIdle /\ InitCaller /\ InitRestIdle

\* the main loop over the cameras, with the tracker all cameras share
LoopNext ==
    \/ SkipCamera
    \/ ServeCamera(UpdateEmpty)
    \/ ServeCamera(UpdateNoDetections)
    \/ ServeCamera(UpdateMatch)
SpecLoop == LoopInit /\ [][LoopNext]_vars

----------------------------------------------------------------------------
(* Claims about CentroidTracker.update, checked under SpecTracker (C4 under   *)
(* SpecTrackerIds)                                                           *)

ARows == {a[1] : a \in call.matches}
Survivors == {call.origin[j] : j \in 1..Len(call.origin)} \ {0}

\* twice the centroid ((x1+x2)/2, (y1+y2)/2), so that halves stay integers
TwiceCentre(bbox) == <<bbox[1] + bbox[3], bbox[2] + bbox[4]>>

\* C1: for every committed match the Euclidean distance between the object's
\* centroid and the detection's centroid, the centroid being
\* ((x1+x2)/2, (y1+y2)/2), is at most max_distance (odd coordinate sums
\* included).  Stated on doubled coordinates: |2p - 2q|^2 <= (2 * max_distance)^2.
C1_MatchWithinMaxDistance ==
    \A a \in call.matches :
        Norm2(TwiceCentre(call.pre[a[1]].bbox), TwiceCentre(call.dets[a[2]]))
            <= 4 * max_distance * max_distance

\* C2: an object that was in the map before the call, was not matched and is
\* still tracked has its miss counter one above its previous value; an object
\* that was matched has miss counter 0, whatever it was before.
C2_MissCounters ==
    \A j \in 1..Len(objects) :
        LET r == call.origin[j]
        IN r # 0 =>
              IF r \in ARows
              THEN objects[j].missed = 0
              ELSE objects[j].missed = call.pre[r].missed + 1

\* C2 witness: one call matched an object that had a miss and left another,
\* still tracked, unmatched
C2_Witness ==
    /\ \E j \in 1..Len(objects) :
          /\ call.origin[j] \in ARows
          /\ call.pre[call.origin[j]].missed > 0
    /\ \E j \in 1..Len(objects) :
          call.origin[j] # 0 /\ call.origin[j] \notin ARows

\* C3: an object is removed from the map in a call if and only if its miss
\* counter exceeds max_missed after the call's increment, and no object with a
\* miss counter above max_missed is in the map when update returns.
C3_EvictionExact ==
    /\ \A r \in 1..Len(call.pre) :
          (r \notin Survivors) <=>
              (r \notin ARows /\ call.pre[r].missed + 1 > max_missed)
    /\ \A j \in 1..Len(objects) : objects[j].missed <= max_missed

\* C4: the id of a newly created object differs from the id of every object
\* in the map when it is created and of every object evicted before.
C4_IdsNeverReused ==
    [][ \A k \in 1..Len(call'.newids) :
            /\ call'.newids[k] \notin Keys(objects) \cup retired
            /\ \A k2 \in 1..(k - 1) : call'.newids[k2] # call'.newids[k] ]_vars

\* C5: the ids of the objects update returns (the values of the map) are
\* pairwise distinct.
C5_ReturnedIdsDistinct ==
    \A i, j \in 1..Len(objects) : i # j => objects[i].id # objects[j].id

\* C5 witness: update returned two objects after drawing, for a new object, an
\* id the map already held
C5_Witness ==
    /\ Len(objects) = 2
    /\ \E k \in 1..Len(call.newids) :
          \/ call.newids[k] \in Keys(call.pre)
          \/ \E k2 \in 1..(k - 1) : call.newids[k2] = call.newids[k]

----------------------------------------------------------------------------
(* Claims about AnalyticsStore, checked under SpecStore *)

\* the record_detection calls of minute m (of iso hour h) made no longer than
\* store_seconds ago
LiveInMinute(m) ==
    {j \in 1..Len(detlog) : MinuteKey(detlog[j]) = m /\ now - detlog[j] <= store_seconds}
LiveInHour(h) ==
    {j \in 1..Len(detlog) :
        IsoFormat(HourKey(MinuteKey(detlog[j]))) = h /\ now - detlog[j] <= store_seconds}

Mutating == {"record_detection", "event", "session_start", "session_end"}

\* C6: once more than store_seconds have passed since an event or a bucket was
\* recorded, it is absent from every read: the event log holds no such event,
\* and busiest_hours counts no such detection, whether or not record_detection
\* was called in between.
C6_ExpiredAbsentFromReads ==
    /\ \A i \in 1..Len(events) : now - events[i].ts <= store_seconds
    /\ (last.op = "busiest_hours" /\ last.at = now) =>
          \A i \in 1..Len(last.res) :
              last.res[i][2] <= Cardinality(LiveInHour(last.res[i][1]))

\* C7: a detection recorded at time t stays counted in its minute bucket for
\* as long as now - t <= store_seconds, for any store_seconds.
C7_RecordedStaysCounted ==
    \A m \in {MinuteKey(detlog[j]) : j \in 1..Len(detlog)} :
        LiveInMinute(m) # {} =>
            /\ m \in DOMAIN minute_buckets
            /\ minute_buckets[m] >= Cardinality(LiveInMinute(m))

\* C8: right after any mutating call returns, the event log holds no event
\* older than store_seconds and the bucket map no bucket older than the same
\* cutoff.
C8_EveryMutationPurges ==
    (last.op \in Mutating /\ last.at = now) =>
        /\ \A i \in 1..Len(events) : events[i].ts >= now - store_seconds
        /\ \A k \in DOMAIN minute_buckets : k >= now - store_seconds

\* C9: session_end(id) on an open session appends exactly one session_end
\* event carrying the id and duration = end time - recorded start time (the
\* time since session_start(id), when that call opened the session and came
\* just before), and closes the session; session_end(id) on an id with no
\* open session (a second session_end) appends nothing and changes no state.
C9_SessionRoundTrip ==
    [][ (last'.op = "session_end" /\ now' = now) =>
          LET id == last'.id
              ev == events'[Len(events')]
          IN IF id \in DOMAIN active_sessions
             THEN /\ Len(events') = Len(events) + 1
                  /\ SubSeq(events', 1, Len(events)) = events
                  /\ ev.t = "session_end"
                  /\ ev.p.id = id
                  /\ ev.p.duration = now - active_sessions[id]
                  /\ (last.op = "session_start" /\ last.id = id /\ last.hit)
                        => ev.p.duration = now - last.at
                  /\ id \notin DOMAIN active_sessions'
                  /\ \A x \in DOMAIN active_sessions \ {id} :
                        x \in DOMAIN active_sessions' /\ active_sessions'[x] = active_sessions[x]
             ELSE /\ events' = events
                  /\ active_sessions' = active_sessions
                  /\ minute_buckets' = minute_buckets
                  /\ heatmap' = heatmap ]_vars

\* C9 witness: session_end closed a session that session_start had opened 30
\* seconds before, and logged that duration
C9_Witness ==
    /\ last.op = "session_end"
    /\ last.hit
    /\ last.id \notin DOMAIN active_sessions
    /\ Len(events) > 0
    /\ events[Len(events)].t = "session_end"
    /\ events[Len(events)].p = [id |-> last.id, duration |-> 30]

\* C10: an id has at most one open session (one start time per id), and
\* session_start(id) on an id with an open session changes nothing: the start
\* time of an open session is that of the session_start that opened it, until
\* session_end.
C10_SessionStartIdempotent ==
    [][ /\ \A id \in DOMAIN active_sessions' :
              IF id \in DOMAIN active_sessions
              THEN active_sessions'[id] = active_sessions[id]
              ELSE /\ last'.op = "session_start"
                   /\ last'.id = id
                   /\ active_sessions'[id] = now
        /\ (last'.op = "session_start" /\ now' = now /\ last'.id \in DOMAIN active_sessions)
              => /\ active_sessions' = active_sessions
                 /\ events' = events
                 /\ minute_buckets' = minute_buckets
                 /\ heatmap' = heatmap ]_vars

\* C10 witness: session_start was called again on an open session, later than
\* the call that opened it, and the start time is still the first one
C10_Witness ==
    /\ last.op = "session_start"
    /\ ~last.hit
    /\ last.id \in DOMAIN active_sessions
    /\ active_sessions[last.id] < last.at

----------------------------------------------------------------------------
(* Claims about the heatmap, checked under SpecGrid *)

\* clamp(floor(c / len * n), 0, n - 1) in exact arithmetic, for the centre
\* c = c2 / 2 of a box side with coordinate sum c2
BinOfCentre(c2, len, n) == Clip((c2 * n) \div (2 * len), 0, n - 1)

\* the same for the centre cut to an integer, int(c2 / 2)
BinOfCutCentre(c2, len, n) == Clip((IntDiv(c2, 2) * n) \div len, 0, n - 1)

\* C11: for every integer box (partly or wholly outside the frame included)
\* and every frame shape with positive height and width, record_detection
\* increments one cell (bx, by) with 0 <= bx <= W-1 and 0 <= by <= H-1, where
\* bx = clamp(floor(cx / frame_w * W), 0, W-1) and by analogously, cx being the
\* centre of the box (taken exactly or cut to an integer, either is accepted).
C11_CellOfCentre ==
    [][ Len(detlog') = Len(detlog) + 1 =>
          LET bbox == seen'[1]
              h == seen'[2][1]
              w == seen'[2][2]
              W == heatmap_bins[1]
              H == heatmap_bins[2]
          IN \E c \in DOMAIN heatmap :
                /\ heatmap' = [heatmap EXCEPT ![c] = @ + 1]
                /\ 0 <= c[1] /\ c[1] <= W - 1
                /\ 0 <= c[2] /\ c[2] <= H - 1
                /\ c[1] \in {BinOfCentre(bbox[1] + bbox[3], w, W),
                             BinOfCutCentre(bbox[1] + bbox[3], w, W)}
                /\ c[2] \in {BinOfCentre(bbox[2] + bbox[4], h, H),
                             BinOfCutCentre(bbox[2] + bbox[4], h, H)} ]_vars

\* C12: the heatmap is a cumulative lifetime count: after any sequence of
\* AnalyticsStore operations and any passage of time the sum of all cells is
\* the number of record_detection calls made so far, no cell ever decreases,
\* and the grid keeps its (W, H) dimensions, purges included.  Checked under
\* SpecStore.
C12_HeatmapCumulative ==
    /\ SumOver(heatmap, DOMAIN heatmap) = Len(detlog)
    /\ [][ /\ SumOver(heatmap', DOMAIN heatmap') = Len(detlog')
           /\ \A c \in DOMAIN heatmap : c \in DOMAIN heatmap' /\ heatmap'[c] >= heatmap[c]
           /\ DOMAIN heatmap' = (0..(heatmap_bins[1] - 1)) \X (0..(heatmap_bins[2] - 1))
           /\ heatmap_bins' = heatmap_bins ]_vars

\* C12 witness: two detections were recorded in one cell, and the purge has
\* removed the bucket of the first: the cell still counts both
C12_Witness ==
    /\ Len(detlog) = 2
    /\ \E c \in DOMAIN heatmap : heatmap[c] = 2
    /\ SumOver(minute_buckets, DOMAIN minute_buckets) = 1

----------------------------------------------------------------------------
(* Claim about busiest_hours, checked under SpecHours *)

\* the minute keys of the map that fall in the hour (day, hour of day) h
MinutesOfHour(h) ==
    {k \in DOMAIN minute_buckets : <<k \div 86400, (k % 86400) \div 3600>> = h}

\* C13: for every top_n >= 0 and every content of the minute-bucket map,
\* busiest_hours(top_n) returns at most top_n (hour, count) pairs with distinct
\* hours, each count the sum of all minute buckets of the map that fall in
\* that hour, in descending order of count, and the empty sequence when the
\* map is empty (so buckets 3 and 5 of one hour give that hour with 8).
C13_BusiestHours ==
    last.op = "busiest_hours" =>
        LET res == last.res
            top_n == seen[1]
        IN /\ Len(res) <= top_n
           /\ \A i, j \in 1..Len(res) : i # j => res[i][1] # res[j][1]
           /\ \A i \in 1..Len(res) :
                 /\ MinutesOfHour(res[i][1]) # {}
                 /\ res[i][2] = SumOver(minute_buckets, MinutesOfHour(res[i][1]))
           /\ \A i, j \in 1..Len(res) : i < j => res[i][2] >= res[j][2]
           /\ DOMAIN minute_buckets = {} => res = <<>>

\* C13 witness: busiest_hours(1) on a map with buckets 3 and 5 in one hour and
\* another hour with less returned that hour with count 8
C13_Witness ==
    /\ last.op = "busiest_hours"
    /\ seen = <<1>>
    /\ DOMAIN minute_buckets = {0, 60, 3600}
    /\ minute_buckets[0] = 3
    /\ minute_buckets[60] = 5
    /\ last.res = << << <<0, 0>>, 8 >> >>

----------------------------------------------------------------------------
(* Claim about get_heatmap, checked under SpecGrid *)

\* C14: get_heatmap returns an independent copy: an assignment the caller
\* makes in the returned array leaves the store's array unchanged, and a later
\* record_detection leaves the returned array as it was.
C14_HeatmapCopyIndependent ==
    [][ /\ last'.op = "caller_write" => heatmap' = heatmap
        /\ (Len(detlog') = Len(detlog) + 1 /\ returned.held) =>
              View(returned', heatmap') = View(returned, heatmap) ]_vars

\* C14 witness: the caller wrote 7 in the array it got, the store then
\* recorded a detection in the same cell, and the two arrays differ there
C14_Witness ==
    /\ returned.held
    /\ View(returned, heatmap)[<<0, 0>>] = 7
    /\ last.op = "record_detection"
    /\ heatmap[<<0, 0>>] \in {1, 2}

----------------------------------------------------------------------------
(* Claims about AnomalyDetector, checked under SpecAnomaly *)

\* C15: check_service_event(event) returns exactly one anomaly of kind
\* unreported_service_no_pos_adapter with detail = event when no POS adapter
\* is configured (and calls nothing); with an adapter it calls the adapter
\* once, with the event and window no_pos_time_window, and returns exactly one
\* anomaly of kind unreported_service with detail = event when the adapter
\* returned no matches and the empty list when it returned at least one; the
\* evaluator's own state is unchanged by the call.
C15_ServiceEvent ==
    [][ answer'.op = "check_service_event" =>
          LET event == answer'.arg
              adapter == anomaly_detector.pos_adapter
          IN /\ anomaly_detector' = anomaly_detector
             /\ IF adapter = "None"
                THEN /\ pos_calls' = pos_calls
                     /\ answer'.res =
                           << [t |-> "unreported_service_no_pos_adapter", detail |-> event] >>
                ELSE /\ Len(pos_calls') = Len(pos_calls) + 1
                     /\ SubSeq(pos_calls', 1, Len(pos_calls)) = pos_calls
                     /\ LET c == pos_calls'[Len(pos_calls')]
                        IN /\ c.event = event
                           /\ c.window_seconds = anomaly_detector.thresholds.no_pos_time_window
                           /\ answer'.res =
                                 IF Len(c.matches) = 0
                                 THEN << [t |-> "unreported_service", detail |-> event] >>
                                 ELSE <<>> ]_vars

\* C15 witness: with an adapter configured, one call found a transaction and
\* returned no anomaly, and the call before it found none
C15_Witness ==
    /\ answer.op = "check_service_event"
    /\ answer.res = <<>>
    /\ Len(pos_calls) = 2
    /\ pos_calls[1].matches = <<>>
    /\ pos_calls[2].matches # <<>>
    /\ pos_calls[2].window_seconds = 60

\* C16: check_early_checkout(session_summary) returns exactly one anomaly of
\* kind unregistered_checkout with detail = session_summary if and only if
\* end_ts is present in the summary (the key is there and holds a timestamp,
\* 0 included) and registered_checkout is false or absent; otherwise it
\* returns the empty list.
C16_EarlyCheckout ==
    answer.op = "check_early_checkout" =>
        LET info == answer.arg
            ended == "end_ts" \in DOMAIN info /\ info["end_ts"].ty = "int"
            registered == "registered_checkout" \in DOMAIN info
                             /\ info["registered_checkout"] = PyBool(TRUE)
        IN answer.res = IF ended /\ ~registered
                        THEN << [t |-> "unregistered_checkout", detail |-> info] >>
                        ELSE <<>>

----------------------------------------------------------------------------
(* Further claims about CentroidTracker.update, checked under SpecTracker *)

\* four times the squared distance between the centroid of the r-th object
\* and the centroid of the c-th detection of the last call
TrueD(r, c) == Norm2(TwiceCentre(call.pre[r].bbox), TwiceCentre(call.dets[c]))

\* the same, to the nearest detection
NearestD(r) ==
    CHOOSE d \in {TrueD(r, c) : c \in 1..Len(call.dets)} :
        \A c \in 1..Len(call.dets) : d <= TrueD(r, c)

\* the visiting orders of the greedy procedure: the objects in ascending order
\* of the distance to their nearest detection
VisitOrders ==
    { p \in [1..Len(call.pre) -> 1..Len(call.pre)] :
        /\ \A i, j \in 1..Len(call.pre) : i # j => p[i] # p[j]
        /\ \A i, j \in 1..Len(call.pre) : i < j => NearestD(p[i]) <= NearestD(p[j]) }

\* a nearest detection for every object
NearestChoices ==
    { n \in [1..Len(call.pre) -> 1..Len(call.dets)] :
        \A r \in 1..Len(call.pre) : TrueD(r, n[r]) = NearestD(r) }

\* C17: in a call with at least one object and one detection the committed
\* matches are those of the greedy procedure: the objects are visited in
\* ascending order of the distance to their nearest detection, and the pair
\* (object, its nearest detection) is committed if and only if that detection
\* is not yet consumed and the distance is at most max_distance; so every
\* object and every detection is in at most one pair, and an object whose
\* nearest detection is consumed stays unmatched.
C17_GreedyMatching ==
    call.kind = "match" =>
        \E p \in VisitOrders, n \in NearestChoices :
            /\ \A a \in call.matches : a[2] = n[a[1]]
            /\ \A k \in 1..Len(call.pre) :
                  (<<p[k], n[p[k]]>> \in call.matches) <=>
                      /\ NearestD(p[k]) <= 4 * max_distance * max_distance
                      /\ ~\E k2 \in 1..(k - 1) : <<p[k2], n[p[k]]>> \in call.matches

----------------------------------------------------------------------------
(* Claim about VideoStreamAsync.read, checked under SpecStream *)

\* C18: under every interleaving of the capture thread with calls to read(),
\* the (ret, frame) pair read() returns is the pair stored by one capture, the
\* last one completed when read() took the lock (the constructor's capture at
\* first): ret and frame never come from two different captures (the frame is
\* a copy of the stored one; frames are never written in after capture).
C18_ReadReturnsOneCapture ==
    reader.res # <<>> /\ reader.pc = "lock" =>
        /\ reader.res[1] = reader.at.ret
        /\ reader.res[2] = reader.at.frame

----------------------------------------------------------------------------
(* Claims about the objects one update call leaves, checked under SpecTracker *)

ZeroMiss == {j \in 1..Len(objects) : objects[j].missed = 0}

\* C19: after every update call the number of tracked objects whose miss
\* counter is 0 equals the number of detections passed to the call: every
\* detection is committed to exactly one existing object or becomes exactly
\* one new object with miss counter 0 and the detection's box, and every other
\* object has miss counter >= 1.
C19_ZeroMissPerDetection ==
    call.kind # "none" =>
        /\ Cardinality(ZeroMiss) = Len(call.dets)
        /\ \E f \in [1..Len(call.dets) -> ZeroMiss] :
              /\ \A c, c2 \in 1..Len(call.dets) : c # c2 => f[c] # f[c2]
              /\ \A c \in 1..Len(call.dets) :
                    /\ objects[f[c]].bbox = call.dets[c]
                    /\ \/ call.origin[f[c]] = 0
                       \/ <<call.origin[f[c]], c>> \in call.matches
        /\ \A j \in (1..Len(objects)) \ ZeroMiss : objects[j].missed >= 1

----------------------------------------------------------------------------
(* Claims about the main loop of app.py, checked under SpecLoop *)

\* C20: with two or more cameras, a tracker.update made for one camera's
\* frame leaves every track created from another camera's detections alone:
\* the track is not matched to this camera's detections, its miss counter is
\* not incremented, and it is not evicted.
C20_TracksIsolatedPerCamera ==
    [][ seen' # <<>> =>
          \A r \in 1..Len(objects) :
             owner[r] # seen'[1] =>
                /\ r \notin {a[1] : a \in call'.matches}
                /\ \E j \in 1..Len(objects') :
                      /\ call'.origin[j] = r
                      /\ objects'[j].missed = objects[r].missed ]_vars

----------------------------------------------------------------------------
(* Claims about VideoStreamAsync.stop, checked under SpecStop *)

\* the thread is inside capture.read(), or will still enter it
ReadAhead ==
    \/ capture_thread.pc = "capture"
    \/ capture_thread.pc = "while" /\ stream.running

\* C21: stop() releases the capture device only after the background thread
\* has left its loop: capture.release() never executes while the thread is
\* inside, or will still enter, capture.read(), also when stop() is called
\* twice and when the thread is blocked in a read longer than the join timeout.
C21_ReleaseAfterThreadLeft ==
    [][ released' # released => ~ReadAhead ]_vars

====
